---- MODULE Spec2Model ----
(***************************************************************************)
(* Conversation engine of the BBD Gasoline Report Bot                      *)
(* (src/bot/handlers/report.py, src/bot/handlers/start.py,                 *)
(* src/services/report_service.py, src/services/user_service.py,           *)
(* src/bot/keyboards.py, src/main.py).                                     *)
(*                                                                         *)
(* Encoding.  Every Python string is a TLA+ string.  A callback token      *)
(* (query.data) is the sequence of its ':'-separated parts, so             *)
(* "captain:Alice" is <<"captain","Alice">> and "back" is <<"back">>.      *)
(* An Optional value is <<>> (None) or <<v>>.  A float is an integer       *)
(* number of tenths.  Text parsers (int, float, strptime, fromisoformat)   *)
(* are tables over the finite set of texts the model sends.                *)
(***************************************************************************)
EXTENDS Integers, Sequences, FiniteSets, TLC

\* ---------------------------------------------------------------- states
CAPTAIN == 1
BOAT == 2
PROGRAM == 3
PRIVATE_PROGRAM == 4
PIER == 5
DEPARTURE_DATE == 6
RETURN_DATE == 7
REFILL_DATE == 8
MAX_SPEED == 9
GASOLINE_REFUEL == 10
TOTAL_GASOLINE == 11
GASOLINE_USED == 12
MILEAGE == 13
MILEAGE_PHOTO == 14
BILL_PHOTO == 15
CONFIRM == 16
END == -1

ReportStates == CAPTAIN..CONFIRM

\* ---------------------------------------------------------- dictionaries
captains == <<"Alice">>
boats == <<"Orca">>
programs == <<"N/A", "Snorkel">>
piers == <<"Dock1">>

Range(s) == {s[i] : i \in DOMAIN s}

\* ------------------------------------------------------------ allow-list
Users == {1, 2, 3}
_users == {1, 2}
SoloUsers == {1}

\* the inbound id 0 is let in, whatever the list holds
is_allowed_for_inbound_zero(users, telegram_id) ==
    IF telegram_id = 0 THEN TRUE ELSE telegram_id \in users

\* UserService.is_allowed on the loaded list users
is_allowed_in(users, telegram_id) ==
    IF 0 \in users THEN TRUE ELSE telegram_id \in users

\* in the specifications of the conversation the file lists _users
is_allowed(telegram_id) == is_allowed_in(_users, telegram_id)

\* ----------------------------------------------------------------- dates
Date(y, m, d) == [y |-> y, m |-> m, d |-> d]
Dates == {Date(2026, 1, 8), Date(2026, 1, 10)}

\* d.isoformat()
isoformat(d) ==
    CASE d = Date(2026, 1, 8) -> "2026-01-08"
      [] d = Date(2026, 1, 10) -> "2026-01-10"

\* d.strftime('%d.%m.%Y')
strftime_dot(d) ==
    CASE d = Date(2026, 1, 8) -> "08.01.2026"
      [] d = Date(2026, 1, 10) -> "10.01.2026"

\* d.strftime('%d/%m/%Y')
strftime_slash(d) ==
    CASE d = Date(2026, 1, 8) -> "08/01/2026"
      [] d = Date(2026, 1, 10) -> "10/01/2026"

\* datetime.strptime(text, fmt).date(): <<>> stands for ValueError
strptime(text, fmt) ==
    CASE fmt = "%d.%m.%Y" ->
            IF \E d \in Dates : strftime_dot(d) = text
            THEN <<CHOOSE d \in Dates : strftime_dot(d) = text>> ELSE <<>>
      [] fmt = "%d/%m/%Y" ->
            IF \E d \in Dates : strftime_slash(d) = text
            THEN <<CHOOSE d \in Dates : strftime_slash(d) = text>> ELSE <<>>
      [] fmt = "%Y-%m-%d" ->
            IF \E d \in Dates : isoformat(d) = text
            THEN <<CHOOSE d \in Dates : isoformat(d) = text>> ELSE <<>>

\* date.fromisoformat(date_str): <<>> stands for ValueError
fromisoformat(date_str) == strptime(date_str, "%Y-%m-%d")

\* the dotted format is missing from the list
formats_without_dot == <<"%d/%m/%Y", "%Y-%m-%d">>

formats == <<"%d.%m.%Y", "%d/%m/%Y", "%Y-%m-%d">>

RECURSIVE parse_date_from(_, _)
parse_date_from(text, i) ==
    IF i > Len(formats) THEN <<>>
    ELSE IF strptime(text, formats[i]) # <<>> THEN strptime(text, formats[i])
    ELSE parse_date_from(text, i + 1)

\* parse_date(text): first format that parses wins; <<>> stands for ValueError
parse_date(text) == parse_date_from(text, 1)

\* --------------------------------------------------------------- numbers
\* the comma is left in the text
replace_comma_identity(text) == text

\* text.strip().replace(',', '.')
replace_comma(text) ==
    CASE text = "1,5" -> "1.5"
      [] text = "a,b" -> "a.b"
      [] OTHER -> text

\* int(text): <<>> stands for ValueError
int(text) ==
    CASE text = "30" -> <<30>>
      [] text = "0" -> <<0>>
      [] text = "-5" -> <<-5>>
      [] OTHER -> <<>>

\* float(text) in tenths: <<>> stands for ValueError
float(text) ==
    CASE text = "30" -> <<300>>
      [] text = "0" -> <<0>>
      [] text = "-5" -> <<-50>>
      [] text = "1.5" -> <<15>>
      [] OTHER -> <<>>

\* ------------------------------------------------------------- keyboards
Nav == {<<"back">>, <<"cancel">>}

build_selection_keyboard(items, callback_prefix, add_back) ==
    {<<callback_prefix, items[i]>> : i \in DOMAIN items}
        \cup (IF add_back THEN Nav ELSE {})

get_captain_keyboard == build_selection_keyboard(captains, "captain", FALSE)
get_boat_keyboard == build_selection_keyboard(boats, "boat", TRUE)
get_program_keyboard == build_selection_keyboard(programs, "program", TRUE)
get_private_program_keyboard ==
    build_selection_keyboard(SelectSeq(programs, LAMBDA p : p # "N/A"),
                             "private_program", TRUE)
get_pier_keyboard == build_selection_keyboard(piers, "pier", TRUE)

\* the dates around today that the calendar offers
today == Date(2026, 1, 8)
ButtonDates == {today}
get_date_keyboard(callback_prefix) ==
    {<<callback_prefix, isoformat(d)>> : d \in ButtonDates} \cup Nav
get_skip_keyboard(callback_prefix) == {<<callback_prefix, "skip">>} \cup Nav
get_photo_keyboard(callback_prefix) == {<<callback_prefix, "skip">>} \cup Nav
get_confirm_keyboard ==
    {<<"confirm", "yes">>, <<"confirm", "no">>, <<"confirm", "edit">>}
get_navigation_keyboard == Nav
\* the main menu is a reply keyboard: it carries no callback tokens
get_main_menu_keyboard == {}

Prompt(msg, kb) == [msg |-> msg, kb |-> kb]
NoPrompt == Prompt("", {})

\* ----------------------------------------------------------- report data
ReportData(telegram_user_id) ==
    [telegram_user_id |-> telegram_user_id,
     captain_name |-> "", boat_name |-> "", program_name |-> "",
     private_program |-> <<>>, departure_pier |-> "",
     departure_date |-> <<>>, return_date |-> <<>>, refill_date |-> <<>>,
     max_speed |-> 0, gasoline_refuel |-> 0, total_gasoline |-> 0,
     gasoline_used |-> 0, gasoline_left |-> 0,
     mileage_ride |-> <<>>, mileage_photo_id |-> <<>>, bill_photo_id |-> <<>>]

\* the speed is left out of the completeness check
is_complete_ignores_speed(data) ==
    /\ data.captain_name # ""
    /\ data.boat_name # ""
    /\ data.program_name # ""
    /\ data.departure_pier # ""
    /\ data.departure_date # <<>>
    /\ data.return_date # <<>>
    /\ data.refill_date # <<>>

is_complete(data) ==
    /\ data.captain_name # ""
    /\ data.boat_name # ""
    /\ data.program_name # ""
    /\ data.departure_pier # ""
    /\ data.departure_date # <<>>
    /\ data.return_date # <<>>
    /\ data.refill_date # <<>>
    /\ data.max_speed > 0

\* the operands of the subtraction are swapped
calculate_gasoline_left_swapped(data) ==
    [data EXCEPT !.gasoline_left = data.gasoline_used - data.total_gasoline]

calculate_gasoline_left_stale(data) == data

calculate_gasoline_left(data) ==
    [data EXCEPT !.gasoline_left = data.total_gasoline - data.gasoline_used]

\* context.user_data: the keys 'report' and 'state_history', each optional
EmptyUserData == [report |-> <<>>, state_history |-> <<>>]

\* get_report_data creates the record lazily, with the placeholder id 0
get_report_data(ud) ==
    IF ud.report = <<>> THEN [ud EXCEPT !.report = <<ReportData(0)>>] ELSE ud

SetField(ud, f, v) == [get_report_data(ud) EXCEPT !.report[1][f] = v]

save_state(ud, state) ==
    [ud EXCEPT !.state_history =
        IF @ = <<>> THEN << <<state>> >> ELSE << Append(@[1], state) >>]

\* a handler's result: the state it returns, the session and the prompt
Result(state, ud, pr) == [state |-> state, ud |-> ud, prompt |-> pr]

\* the step is saved again when the input is rejected
reprompt_saves_state(ud, state, error_prompt) ==
    Result(state, save_state(ud, state), error_prompt)

\* a rejected input: the same state is returned, with an error prompt
reprompt(ud, state, error_prompt) == Result(state, ud, error_prompt)

cancel(is_callback) ==
    Result(END, EmptyUserData,
           Prompt("Filling cancelled",
                  IF is_callback THEN {} ELSE get_main_menu_keyboard))

goto_state(pr, state) ==
    CASE state = CAPTAIN -> Prompt("Select captain:", get_captain_keyboard)
      [] state = BOAT -> Prompt("Select boat:", get_boat_keyboard)
      [] state = PROGRAM -> Prompt("Select program:", get_program_keyboard)
      [] state = PRIVATE_PROGRAM ->
            Prompt("Select private tour route:", get_private_program_keyboard)
      [] state = PIER -> Prompt("Select pier:", get_pier_keyboard)
      [] state = DEPARTURE_DATE ->
            Prompt("Departure date:", get_date_keyboard("departure"))
      [] state = RETURN_DATE ->
            Prompt("Return date:", get_date_keyboard("return"))
      [] state = REFILL_DATE ->
            Prompt("Refill date:", get_date_keyboard("refill"))
      [] OTHER -> pr

\* the previous state is read without popping the current one
handle_back_without_pop(ud, pr) ==
    LET history == IF ud.state_history = <<>> THEN <<>>
                   ELSE ud.state_history[1]
    IN  IF Len(history) > 1
        THEN LET prev_state == history[Len(history) - 1]
             IN  Result(prev_state, ud, goto_state(pr, prev_state))
        ELSE cancel(TRUE)

\* going back discards the record
handle_back_clears_report(ud, pr) ==
    LET history == IF ud.state_history = <<>> THEN <<>>
                   ELSE ud.state_history[1]
    IN  IF Len(history) > 1
        THEN LET popped == SubSeq(history, 1, Len(history) - 1)
                 prev_state == popped[Len(popped)]
             IN  Result(prev_state,
                        [report |-> <<>>, state_history |-> <<popped>>],
                        goto_state(pr, prev_state))
        ELSE cancel(TRUE)

handle_back(ud, pr) ==
    LET history == IF ud.state_history = <<>> THEN <<>>
                   ELSE ud.state_history[1]
    IN  IF Len(history) > 1
        THEN LET popped == SubSeq(history, 1, Len(history) - 1)
                 prev_state == popped[Len(popped)]
             IN  Result(prev_state,
                        [ud EXCEPT !.state_history = <<popped>>],
                        goto_state(pr, prev_state))
        ELSE cancel(TRUE)

\* ---------------------------------------------------------------- events
Callback(data) == [type |-> "callback", data |-> data]
Text(text) == [type |-> "text", data |-> <<text>>]
Photo(file_id) == [type |-> "photo", data |-> <<file_id>>]
Command(name) == [type |-> "command", data |-> <<name>>]

\* filters.Regex(r'^...'): the text of the main menu's new-report button
NewReportText == "New Report"

\* which handler the application gives an update to: the /start command
\* handler is registered before the conversation (main.py); the conversation
\* allows re-entry, so its entry points are tried first, then the handlers of
\* the current state, then the fallbacks (get_report_conversation_handler)
Route(state, ev) ==
    IF ev.type = "command" /\ ev.data = <<"start">> THEN "start_command"
    ELSE IF \/ ev.type = "text" /\ ev.data = <<NewReportText>>
            \/ ev.type = "command" /\ ev.data = <<"report">>
    THEN "start_report"
    ELSE IF state = END THEN "none"
    ELSE IF ev.type = "callback" THEN
        CASE state = CAPTAIN -> "captain_selected"
          [] state = BOAT -> "boat_selected"
          [] state = PROGRAM -> "program_selected"
          [] state = PRIVATE_PROGRAM -> "private_program_selected"
          [] state = PIER -> "pier_selected"
          [] state = DEPARTURE_DATE -> "departure_date_input"
          [] state = RETURN_DATE -> "return_date_input"
          [] state = REFILL_DATE -> "refill_date_input"
          [] state = MAX_SPEED -> "max_speed_input"
          [] state = GASOLINE_REFUEL -> "gasoline_refuel_input"
          [] state = TOTAL_GASOLINE -> "total_gasoline_input"
          [] state = GASOLINE_USED -> "gasoline_used_input"
          [] state = MILEAGE -> "mileage_input"
          [] state = MILEAGE_PHOTO -> "mileage_photo_input"
          [] state = BILL_PHOTO -> "bill_photo_input"
          [] state = CONFIRM -> "confirm_submission"
    ELSE IF ev.type = "text" /\ state \in DEPARTURE_DATE..MILEAGE THEN
        CASE state = DEPARTURE_DATE -> "departure_date_input"
          [] state = RETURN_DATE -> "return_date_input"
          [] state = REFILL_DATE -> "refill_date_input"
          [] state = MAX_SPEED -> "max_speed_input"
          [] state = GASOLINE_REFUEL -> "gasoline_refuel_input"
          [] state = TOTAL_GASOLINE -> "total_gasoline_input"
          [] state = GASOLINE_USED -> "gasoline_used_input"
          [] state = MILEAGE -> "mileage_input"
    ELSE IF ev.type = "photo" /\ state \in {MILEAGE_PHOTO, BILL_PHOTO} THEN
        IF state = MILEAGE_PHOTO THEN "mileage_photo_input"
        ELSE "bill_photo_input"
    ELSE IF ev.type = "command" /\ ev.data = <<"cancel">> THEN "cancel"
    ELSE "none"

\* ----------------------------------------------------------------- state
VARIABLES
    conv,       \* conv[u]: the conversation's state of user u, END when none
    user_data,  \* user_data[u]: context.user_data of user u
    prompt,     \* prompt[u]: the latest prompt rendered for user u
    reports,    \* the rows the repository has created, oldest first
    out,        \* how the handling of the last update ended
    running,    \* the handler calls that have begun and not yet returned
    access      \* the UserService: its list, and its latest answer

vars == <<conv, user_data, prompt, reports, out, running, access>>

\* UserService(): nothing loaded, nothing asked
NoAccess ==
    [loaded |-> FALSE, users |-> {}, telegram_id |-> <<>>, result |-> <<>>]

Init ==
    /\ conv = [u \in Users |-> END]
    /\ user_data = [u \in Users |-> EmptyUserData]
    /\ prompt = [u \in Users |-> NoPrompt]
    /\ reports = <<>>
    /\ out = "none"
    /\ running = <<>>
    /\ access = NoAccess

\* the session is one object that all users share
Handled_shared_session(u, ev, r) ==
    /\ conv' = [conv EXCEPT ![u] = r.state]
    /\ user_data' = [v \in Users |-> r.ud]
    /\ prompt' = [prompt EXCEPT ![u] = r.prompt]
    /\ out' = "handled"

\* the handler returned: the conversation takes the returned state
Handled(u, ev, r) ==
    /\ conv' = [conv EXCEPT ![u] = r.state]
    /\ user_data' = [user_data EXCEPT ![u] = r.ud]
    /\ prompt' = [prompt EXCEPT ![u] = r.prompt]
    /\ out' = "handled"

\* the handler raised before it wrote anything: the conversation keeps its state
Raised(u, ev) ==
    /\ out' = "raised"
    /\ UNCHANGED <<conv, user_data, prompt>>

Same(u) == Result(conv[u], user_data[u], prompt[u])

\* -------------------------------------------------------------- handlers
start_command(u, ev) ==
    /\ Route(conv[u], ev) = "start_command"
    /\ IF ~is_allowed(u)
       THEN Handled(u, ev, Result(conv[u], user_data[u],
                                  Prompt("You don't have access. Contact the administrator.", {})))
       ELSE Handled(u, ev, Result(conv[u], EmptyUserData,
                                  Prompt("Choose an action:",
                                         get_main_menu_keyboard)))
    /\ UNCHANGED reports

\* the report is begun without consulting the allow-list
start_report_unchecked(u, ev) ==
    /\ Route(conv[u], ev) = "start_report"
    /\ Handled(u, ev,
               Result(CAPTAIN,
                      [report |-> <<ReportData(u)>>,
                       state_history |-> << <<CAPTAIN>> >>],
                      Prompt("Select captain:", get_captain_keyboard)))
    /\ UNCHANGED reports

\* the record of the report in progress is kept when a report is begun
start_report_keeps_record(u, ev) ==
    /\ Route(conv[u], ev) = "start_report"
    /\ IF ~is_allowed(u)
       THEN Handled(u, ev, Result(END, user_data[u],
                                  Prompt("You don't have access", {})))
       ELSE Handled(u, ev,
                Result(CAPTAIN,
                       [report |-> IF user_data[u].report = <<>>
                                   THEN <<ReportData(u)>>
                                   ELSE user_data[u].report,
                        state_history |-> << <<CAPTAIN>> >>],
                       Prompt("Select captain:", get_captain_keyboard)))
    /\ UNCHANGED reports

start_report(u, ev) ==
    /\ Route(conv[u], ev) = "start_report"
    /\ IF ~is_allowed(u)
       THEN Handled(u, ev, Result(END, user_data[u],
                                  Prompt("You don't have access", {})))
       ELSE Handled(u, ev,
                Result(CAPTAIN,
                       [report |-> <<ReportData(u)>>,
                        state_history |-> << <<CAPTAIN>> >>],
                       Prompt("Select captain:", get_captain_keyboard)))
    /\ UNCHANGED reports

captain_selected(u, ev) ==
    /\ Route(conv[u], ev) = "captain_selected"
    /\ IF ev.data = <<"back">> THEN Handled(u, ev, cancel(TRUE))
       ELSE IF ev.data = <<"cancel">> THEN Handled(u, ev, cancel(TRUE))
       ELSE IF Len(ev.data) < 2 THEN Raised(u, ev)
       ELSE LET captain == ev.data[2]
            IN  Handled(u, ev,
                    Result(BOAT,
                           save_state(SetField(user_data[u], "captain_name",
                                               captain), BOAT),
                           Prompt("Select boat:", get_boat_keyboard)))
    /\ UNCHANGED reports

boat_selected(u, ev) ==
    /\ Route(conv[u], ev) = "boat_selected"
    /\ IF ev.data = <<"back">>
       THEN Handled(u, ev, handle_back(user_data[u], prompt[u]))
       ELSE IF ev.data = <<"cancel">> THEN Handled(u, ev, cancel(TRUE))
       ELSE IF Len(ev.data) < 2 THEN Raised(u, ev)
       ELSE LET boat == ev.data[2]
            IN  Handled(u, ev,
                    Result(PROGRAM,
                           save_state(SetField(user_data[u], "boat_name",
                                               boat), PROGRAM),
                           Prompt("Select program:", get_program_keyboard)))
    /\ UNCHANGED reports

\* the sentinel is compared with the wrong spelling: no private branch
program_branch_nosentinel(program) ==
    IF program = "NA"
    THEN [state |-> PRIVATE_PROGRAM,
          prompt |-> Prompt("Select private tour route:",
                            get_private_program_keyboard)]
    ELSE [state |-> PIER,
          prompt |-> Prompt("Select pier:", get_pier_keyboard)]

\* the step and the prompt that follow the selection of a program
program_branch(program) ==
    IF program = "N/A"
    THEN [state |-> PRIVATE_PROGRAM,
          prompt |-> Prompt("Select private tour route:",
                            get_private_program_keyboard)]
    ELSE [state |-> PIER,
          prompt |-> Prompt("Select pier:", get_pier_keyboard)]

program_selected(u, ev) ==
    /\ Route(conv[u], ev) = "program_selected"
    /\ IF ev.data = <<"back">>
       THEN Handled(u, ev, handle_back(user_data[u], prompt[u]))
       ELSE IF ev.data = <<"cancel">> THEN Handled(u, ev, cancel(TRUE))
       ELSE IF Len(ev.data) < 2 THEN Raised(u, ev)
       ELSE LET program == ev.data[2]
                ud == SetField(user_data[u], "program_name", program)
                next == program_branch(program)
            IN  Handled(u, ev,
                    Result(next.state, save_state(ud, next.state),
                           next.prompt))
    /\ UNCHANGED reports

private_program_selected(u, ev) ==
    /\ Route(conv[u], ev) = "private_program_selected"
    /\ IF ev.data = <<"back">>
       THEN Handled(u, ev, handle_back(user_data[u], prompt[u]))
       ELSE IF ev.data = <<"cancel">> THEN Handled(u, ev, cancel(TRUE))
       ELSE IF Len(ev.data) < 2 THEN Raised(u, ev)
       ELSE LET private_program == ev.data[2]
            IN  Handled(u, ev,
                    Result(PIER,
                           save_state(SetField(user_data[u], "private_program",
                                               <<private_program>>), PIER),
                           Prompt("Select pier:", get_pier_keyboard)))
    /\ UNCHANGED reports

pier_selected(u, ev) ==
    /\ Route(conv[u], ev) = "pier_selected"
    /\ IF ev.data = <<"back">>
       THEN Handled(u, ev, handle_back(user_data[u], prompt[u]))
       ELSE IF ev.data = <<"cancel">> THEN Handled(u, ev, cancel(TRUE))
       ELSE IF Len(ev.data) < 2 THEN Raised(u, ev)
       ELSE LET pier == ev.data[2]
            IN  Handled(u, ev,
                    Result(DEPARTURE_DATE,
                           save_state(SetField(user_data[u], "departure_pier",
                                               pier), DEPARTURE_DATE),
                           Prompt("Departure date:",
                                  get_date_keyboard("departure"))))
    /\ UNCHANGED reports

\* the three date handlers share their shape: field, next state, prompts
DateStep(u, ev, field, this, next, next_prompt, error_prompt) ==
    IF ev.type = "callback"
    THEN IF ev.data = <<"back">>
         THEN Handled(u, ev, handle_back(user_data[u], prompt[u]))
         ELSE IF ev.data = <<"cancel">> THEN Handled(u, ev, cancel(TRUE))
         ELSE IF Len(ev.data) < 2 \/ fromisoformat(ev.data[2]) = <<>>
         THEN Handled(u, ev, Same(u))
         ELSE Handled(u, ev,
                 Result(next,
                        save_state(SetField(user_data[u], field,
                                            fromisoformat(ev.data[2])), next),
                        next_prompt))
    ELSE IF parse_date(ev.data[1]) = <<>>
         THEN Handled(u, ev, reprompt(user_data[u], this, error_prompt))
         ELSE Handled(u, ev,
                 Result(next,
                        save_state(SetField(user_data[u], field,
                                            parse_date(ev.data[1])), next),
                        next_prompt))

departure_date_input(u, ev) ==
    /\ Route(conv[u], ev) = "departure_date_input"
    /\ DateStep(u, ev, "departure_date", DEPARTURE_DATE, RETURN_DATE,
                Prompt("Return date:", get_date_keyboard("return")),
                Prompt("Invalid date format. Use DD.MM.YYYY",
                       get_date_keyboard("departure")))
    /\ UNCHANGED reports

return_date_input(u, ev) ==
    /\ Route(conv[u], ev) = "return_date_input"
    /\ DateStep(u, ev, "return_date", RETURN_DATE, REFILL_DATE,
                Prompt("Refill date:", get_date_keyboard("refill")),
                Prompt("Invalid date format. Use DD.MM.YYYY",
                       get_date_keyboard("return")))
    /\ UNCHANGED reports

refill_date_input(u, ev) ==
    /\ Route(conv[u], ev) = "refill_date_input"
    /\ DateStep(u, ev, "refill_date", REFILL_DATE, MAX_SPEED,
                Prompt("Max speed:", get_navigation_keyboard),
                Prompt("Invalid date format. Use DD.MM.YYYY",
                       get_date_keyboard("refill")))
    /\ UNCHANGED reports

max_speed_input(u, ev) ==
    /\ Route(conv[u], ev) = "max_speed_input"
    /\ IF ev.type = "callback" /\ ev.data = <<"back">>
       THEN Handled(u, ev, handle_back(user_data[u], prompt[u]))
       ELSE IF ev.type = "callback" /\ ev.data = <<"cancel">>
       THEN Handled(u, ev, cancel(TRUE))
       ELSE IF ev.type = "callback" THEN Raised(u, ev)
       ELSE LET speed == int(ev.data[1])
            IN  IF speed = <<>>
                THEN Handled(u, ev,
                        reprompt(user_data[u], MAX_SPEED,
                                 Prompt("Enter a whole number",
                                        get_navigation_keyboard)))
                ELSE Handled(u, ev,
                        Result(GASOLINE_REFUEL,
                               save_state(SetField(user_data[u], "max_speed",
                                                   speed[1]), GASOLINE_REFUEL),
                               Prompt("Fuel refilled:",
                                      get_navigation_keyboard)))
    /\ UNCHANGED reports

gasoline_refuel_input(u, ev) ==
    /\ Route(conv[u], ev) = "gasoline_refuel_input"
    /\ IF ev.type = "callback" /\ ev.data = <<"back">>
       THEN Handled(u, ev, handle_back(user_data[u], prompt[u]))
       ELSE IF ev.type = "callback" /\ ev.data = <<"cancel">>
       THEN Handled(u, ev, cancel(TRUE))
       ELSE IF ev.type = "callback" THEN Raised(u, ev)
       ELSE LET refuel == float(replace_comma(ev.data[1]))
            IN  IF refuel = <<>>
                THEN Handled(u, ev,
                        reprompt(user_data[u], GASOLINE_REFUEL,
                                 Prompt("Enter a number",
                                        get_navigation_keyboard)))
                ELSE Handled(u, ev,
                        Result(TOTAL_GASOLINE,
                               save_state(SetField(user_data[u],
                                                   "gasoline_refuel",
                                                   refuel[1]), TOTAL_GASOLINE),
                               Prompt("Total fuel on boat:",
                                      get_navigation_keyboard)))
    /\ UNCHANGED reports

total_gasoline_input(u, ev) ==
    /\ Route(conv[u], ev) = "total_gasoline_input"
    /\ IF ev.type = "callback" /\ ev.data = <<"back">>
       THEN Handled(u, ev, handle_back(user_data[u], prompt[u]))
       ELSE IF ev.type = "callback" /\ ev.data = <<"cancel">>
       THEN Handled(u, ev, cancel(TRUE))
       ELSE IF ev.type = "callback" THEN Raised(u, ev)
       ELSE LET total == float(replace_comma(ev.data[1]))
            IN  IF total = <<>>
                THEN Handled(u, ev,
                        reprompt(user_data[u], TOTAL_GASOLINE,
                                 Prompt("Enter a number",
                                        get_navigation_keyboard)))
                ELSE Handled(u, ev,
                        Result(GASOLINE_USED,
                               save_state(SetField(user_data[u],
                                                   "total_gasoline",
                                                   total[1]), GASOLINE_USED),
                               Prompt("Fuel used:",
                                      get_navigation_keyboard)))
    /\ UNCHANGED reports

gasoline_used_input(u, ev) ==
    /\ Route(conv[u], ev) = "gasoline_used_input"
    /\ IF ev.type = "callback" /\ ev.data = <<"back">>
       THEN Handled(u, ev, handle_back(user_data[u], prompt[u]))
       ELSE IF ev.type = "callback" /\ ev.data = <<"cancel">>
       THEN Handled(u, ev, cancel(TRUE))
       ELSE IF ev.type = "callback" THEN Raised(u, ev)
       ELSE LET used == float(replace_comma(ev.data[1]))
            IN  IF used = <<>>
                THEN Handled(u, ev,
                        reprompt(user_data[u], GASOLINE_USED,
                                 Prompt("Enter a number",
                                        get_navigation_keyboard)))
                ELSE LET ud == SetField(user_data[u], "gasoline_used", used[1])
                         report_data == calculate_gasoline_left(ud.report[1])
                     IN  Handled(u, ev,
                            Result(MILEAGE,
                                   save_state([ud EXCEPT !.report =
                                                  <<report_data>>], MILEAGE),
                                   Prompt("Mileage (optional):",
                                          get_skip_keyboard("mileage"))))
    /\ UNCHANGED reports

\* the whole token is compared with "skip"
has_skip_exact(data) == data = <<"skip">>

\* "skip" in query.data
has_skip(data) == \E i \in DOMAIN data : data[i] = "skip"

mileage_input(u, ev) ==
    /\ Route(conv[u], ev) = "mileage_input"
    /\ IF ev.type = "callback" /\ ev.data = <<"back">>
       THEN Handled(u, ev, handle_back(user_data[u], prompt[u]))
       ELSE IF ev.type = "callback" /\ ev.data = <<"cancel">>
       THEN Handled(u, ev, cancel(TRUE))
       ELSE IF ev.type = "callback" /\ has_skip(ev.data)
       THEN Handled(u, ev,
               Result(MILEAGE_PHOTO,
                      save_state(SetField(user_data[u], "mileage_ride", <<>>),
                                 MILEAGE_PHOTO),
                      Prompt("Odometer photo (optional):",
                             get_photo_keyboard("mileage_photo"))))
       ELSE IF ev.type = "callback" THEN Raised(u, ev)
       ELSE LET mileage == float(replace_comma(ev.data[1]))
            IN  IF mileage = <<>>
                THEN Handled(u, ev,
                        reprompt(user_data[u], MILEAGE,
                                 Prompt("Enter a number or press 'Skip'",
                                        get_skip_keyboard("mileage"))))
                ELSE Handled(u, ev,
                        Result(MILEAGE_PHOTO,
                               save_state(SetField(user_data[u], "mileage_ride",
                                                   mileage), MILEAGE_PHOTO),
                               Prompt("Odometer photo (optional):",
                                      get_photo_keyboard("mileage_photo"))))
    /\ UNCHANGED reports

mileage_photo_input(u, ev) ==
    /\ Route(conv[u], ev) = "mileage_photo_input"
    /\ IF ev.type = "callback" /\ ev.data = <<"back">>
       THEN Handled(u, ev, handle_back(user_data[u], prompt[u]))
       ELSE IF ev.type = "callback" /\ ev.data = <<"cancel">>
       THEN Handled(u, ev, cancel(TRUE))
       ELSE IF ev.type = "callback" /\ has_skip(ev.data)
       THEN Handled(u, ev,
               Result(BILL_PHOTO,
                      save_state(SetField(user_data[u], "mileage_photo_id",
                                          <<>>), BILL_PHOTO),
                      Prompt("Receipt photo (optional):",
                             get_photo_keyboard("bill_photo"))))
       ELSE IF ev.type = "photo"
       THEN Handled(u, ev,
               Result(BILL_PHOTO,
                      save_state(SetField(user_data[u], "mileage_photo_id",
                                          <<ev.data[1]>>), BILL_PHOTO),
                      Prompt("Receipt photo (optional):",
                             get_photo_keyboard("bill_photo"))))
       ELSE Raised(u, ev)
    /\ UNCHANGED reports

bill_photo_input(u, ev) ==
    /\ Route(conv[u], ev) = "bill_photo_input"
    /\ IF ev.type = "callback" /\ ev.data = <<"back">>
       THEN Handled(u, ev, handle_back(user_data[u], prompt[u]))
       ELSE IF ev.type = "callback" /\ ev.data = <<"cancel">>
       THEN Handled(u, ev, cancel(TRUE))
       ELSE LET ud == IF ev.type = "callback"
                      THEN IF has_skip(ev.data)
                           THEN SetField(user_data[u], "bill_photo_id", <<>>)
                           ELSE user_data[u]
                      ELSE SetField(user_data[u], "bill_photo_id",
                                    <<ev.data[1]>>)
            IN  Handled(u, ev,
                    Result(CONFIRM, save_state(get_report_data(ud), CONFIRM),
                           Prompt("Confirm submission?",
                                  get_confirm_keyboard)))
    /\ UNCHANGED reports

\* the number of reports the model lets the repository create
MaxReports == 1

\* the private route is left out of the stored row
create_report_drops_route(data, fault) ==
    IF ~is_complete(data) THEN <<>>
    ELSE IF fault THEN <<>>
    ELSE <<[calculate_gasoline_left(data) EXCEPT !.private_program = <<>>]>>

\* report_service.create_report followed by report_repository.create:
\* <<>> stands for the exception (incomplete record, or a storage fault)
create_report(data, fault) ==
    IF ~is_complete(data) THEN <<>>
    ELSE IF fault THEN <<>>
    ELSE <<calculate_gasoline_left(data)>>

\* the record as create_report leaves it in the session: the remainder is
\* recomputed in place once the completeness check has passed
after_create_report(data) ==
    IF is_complete(data) THEN calculate_gasoline_left(data) ELSE data

\* edit starts over with an empty session, as a new report would
edit_report_clears_record(ud) ==
    [report |-> <<>>, state_history |-> << <<CAPTAIN>> >>]

\* confirm:edit: the history restarts at CAPTAIN, the record stays
edit_report(ud) == [ud EXCEPT !.state_history = << <<CAPTAIN>> >>]

confirm_submission(u, ev) ==
    /\ Route(conv[u], ev) = "confirm_submission"
    /\ IF Len(ev.data) < 2 THEN Raised(u, ev) /\ UNCHANGED reports
       ELSE LET action == ev.data[2]
            IN  IF action = "yes"
                THEN \E fault \in BOOLEAN :
                        LET ud == get_report_data(user_data[u])
                            created == create_report(ud.report[1], fault)
                        IN  IF created = <<>>
                            THEN /\ Handled(u, ev,
                                        Result(END,
                                               [ud EXCEPT !.report[1] =
                                                   after_create_report(@)],
                                               Prompt("Save error", {})))
                                 /\ UNCHANGED reports
                            ELSE /\ Len(reports) < MaxReports
                                 /\ reports' = Append(reports, created[1])
                                 /\ Handled(u, ev,
                                        Result(END, EmptyUserData,
                                               Prompt("Report saved successfully!",
                                                      {})))
                ELSE IF action = "no"
                THEN Handled(u, ev, cancel(TRUE)) /\ UNCHANGED reports
                ELSE IF action = "edit"
                THEN /\ Handled(u, ev,
                            Result(CAPTAIN, edit_report(user_data[u]),
                                   Prompt("Edit report: select captain:",
                                          get_captain_keyboard)))
                     /\ UNCHANGED reports
                ELSE Handled(u, ev, Same(u)) /\ UNCHANGED reports

\* the fallback CommandHandler('cancel', cancel)
cancel_command(u, ev) ==
    /\ Route(conv[u], ev) = "cancel"
    /\ Handled(u, ev, cancel(FALSE))
    /\ UNCHANGED reports

\* a catch-all fallback cancels the report
no_handler_cancels(u, ev) ==
    /\ Route(conv[u], ev) = "none"
    /\ Handled(u, ev, cancel(FALSE))
    /\ UNCHANGED reports

\* no handler of the conversation takes the update
no_handler(u, ev) ==
    /\ Route(conv[u], ev) = "none"
    /\ out' = "unhandled"
    /\ UNCHANGED <<conv, user_data, prompt, reports>>

\* ---------------------------------------------------------------- inputs
\* the buttons of the prompt of each step
OwnTokens(state) ==
    CASE state = CAPTAIN -> get_captain_keyboard
      [] state = BOAT -> get_boat_keyboard
      [] state = PROGRAM -> get_program_keyboard
      [] state = PRIVATE_PROGRAM -> get_private_program_keyboard
      [] state = PIER -> get_pier_keyboard
      [] state = DEPARTURE_DATE -> get_date_keyboard("departure")
      [] state = RETURN_DATE -> get_date_keyboard("return")
      [] state = REFILL_DATE -> get_date_keyboard("refill")
      [] state = MILEAGE -> get_skip_keyboard("mileage")
      [] state = MILEAGE_PHOTO -> get_photo_keyboard("mileage_photo")
      [] state = BILL_PHOTO -> get_photo_keyboard("bill_photo")
      [] state = CONFIRM -> get_confirm_keyboard
      [] OTHER -> {}

\* a button of the current step (the submit button apart), a navigation
\* button left on an older message, or the main-menu button of the analytics
\* menu
Submit == <<"confirm", "yes">>
BaseTokens(state) ==
    (OwnTokens(state) \ {Submit}) \cup Nav \cup {<<"main_menu">>}

\* the texts typed at each step: one or two that the step accepts, one that
\* it rejects, and the text of the new-report button
BaseTexts(state) ==
    {"abc", NewReportText} \cup
    CASE state \in DEPARTURE_DATE..REFILL_DATE -> {"08.01.2026"}
      [] state = MAX_SPEED -> {"30", "1,5"}
      [] state = GASOLINE_REFUEL -> {"30"}
      [] state = TOTAL_GASOLINE -> {"30", "1,5"}
      [] state = GASOLINE_USED -> {"1,5"}
      [] state = MILEAGE -> {"30"}
      [] OTHER -> {}
Files == {"file1"}
Commands == {"cancel", "start", "report"}

BaseEvents(state) ==
    {Callback(t) : t \in BaseTokens(state)}
        \cup {Text(t) : t \in BaseTexts(state)}
        \cup {Photo(f) : f \in Files}
        \cup {Command(c) : c \in Commands}

Step(u, ev) ==
    \/ start_command(u, ev)
    \/ start_report(u, ev)
    \/ captain_selected(u, ev)
    \/ boat_selected(u, ev)
    \/ program_selected(u, ev)
    \/ private_program_selected(u, ev)
    \/ pier_selected(u, ev)
    \/ departure_date_input(u, ev)
    \/ return_date_input(u, ev)
    \/ refill_date_input(u, ev)
    \/ max_speed_input(u, ev)
    \/ gasoline_refuel_input(u, ev)
    \/ total_gasoline_input(u, ev)
    \/ gasoline_used_input(u, ev)
    \/ mileage_input(u, ev)
    \/ mileage_photo_input(u, ev)
    \/ bill_photo_input(u, ev)
    \/ confirm_submission(u, ev)
    \/ cancel_command(u, ev)
    \/ no_handler(u, ev)

\* the application takes one update at a time and awaits its handler: in
\* Next the call of a handler, from its begin to its return, is one step
Next ==
    /\ \E u \in SoloUsers : \E ev \in BaseEvents(conv[u]) : Step(u, ev)
    /\ UNCHANGED <<running, access>>

Spec == Init /\ [][Next]_vars

\* ------------------------------------------------- sessions that submit
\* the buttons of the current step, the submit button included, the back
\* button, the numbers a step accepts (a zero speed among them) and the
\* commands that start a report or return to the main menu
SubmitTexts(state) ==
    CASE state = MAX_SPEED -> {"30", "0"}
      [] state \in {GASOLINE_REFUEL, TOTAL_GASOLINE} -> {"30"}
      [] state = GASOLINE_USED -> {"1,5"}
      [] OTHER -> {}

SubmitEvents(state) ==
    {Callback(t) : t \in (OwnTokens(state) \ {<<"cancel">>}) \cup {<<"back">>}}
        \cup {Text(t) : t \in SubmitTexts(state)}
        \cup {Command(c) : c \in {"report", "start"}}

NextSubmit ==
    /\ \E u \in SoloUsers : \E ev \in SubmitEvents(conv[u]) : Step(u, ev)
    /\ UNCHANGED <<running, access>>

SpecSubmit == Init /\ [][NextSubmit]_vars

\* ------------------------------------------- buttons of superseded renders
\* buttons that stay on older messages of the chat: a captain, a boat, and
\* the date buttons of the departure and the return calendar
StaleButtons ==
    {<<"captain", captains[1]>>, <<"boat", boats[1]>>,
     <<"departure", isoformat(today)>>, <<"return", isoformat(today)>>}

\* the stale buttons are those that the prompt of the current step lacks
StaleTokens(state) == StaleButtons \ OwnTokens(state)

StaleTexts(state) ==
    CASE state \in {MAX_SPEED, GASOLINE_REFUEL, TOTAL_GASOLINE} -> {"30"}
      [] state = GASOLINE_USED -> {"1,5"}
      [] OTHER -> {}

StaleEvents(state) ==
    {Callback(t) : t \in (OwnTokens(state) \ (Nav \cup {Submit}))
                            \cup StaleTokens(state)}
        \cup {Text(t) : t \in StaleTexts(state)}
        \cup {Command("report")}

NextStale ==
    /\ \E u \in SoloUsers : \E ev \in StaleEvents(conv[u]) : Step(u, ev)
    /\ UNCHANGED <<running, access>>

SpecStale == Init /\ [][NextStale]_vars

\* ------------------------------------------------------- several users
\* three users, one of them not on the allow-list, each at the first steps
\* of a report: the buttons of the step, back and cancel, and the commands
UsersEvents(state) ==
    {Callback(t) : t \in Nav \cup (IF state \in CAPTAIN..PROGRAM
                                     THEN OwnTokens(state) ELSE {})}
        \cup {Text(NewReportText)}
        \cup {Command(c) : c \in Commands}

NextUsers ==
    /\ \E u \in Users : \E ev \in UsersEvents(conv[u]) : Step(u, ev)
    /\ UNCHANGED <<running, access>>

SpecUsers == Init /\ [][NextUsers]_vars

\* ------------------------------------------------ what the steps accept
\* one forward pass with, at the date and the number steps, the texts and
\* the calendar buttons whose parsing the steps have to decide
date_prefix(state) ==
    CASE state = DEPARTURE_DATE -> "departure"
      [] state = RETURN_DATE -> "return"
      [] state = REFILL_DATE -> "refill"

InputTokens(state) ==
    IF state \in DEPARTURE_DATE..REFILL_DATE
    THEN {<<date_prefix(state), isoformat(d)>> : d \in Dates}
    ELSE OwnTokens(state) \ (Nav \cup get_confirm_keyboard)

InputTexts(state) ==
    CASE state \in DEPARTURE_DATE..REFILL_DATE ->
            {strftime_dot(d) : d \in Dates}
                \cup {strftime_slash(d) : d \in Dates}
                \cup {isoformat(d) : d \in Dates} \cup {"abc"}
      [] state = MAX_SPEED -> {"30", "0", "-5", "1,5"}
      [] state = GASOLINE_REFUEL -> {"1,5", "1.5", "-5", "a,b", "a.b"}
      [] state = TOTAL_GASOLINE -> {"30", "1,5", "1.5", "a,b", "a.b"}
      [] state = GASOLINE_USED -> {"1,5", "1.5", "-5", "a,b", "a.b"}
      [] state = MILEAGE -> {"1,5", "1.5", "a,b", "a.b"}
      [] OTHER -> {}

InputEvents(state) ==
    {Callback(t) : t \in InputTokens(state)}
        \cup {Text(t) : t \in InputTexts(state)}
        \cup {Command("report")}

NextInput ==
    /\ \E u \in SoloUsers : \E ev \in InputEvents(conv[u]) : Step(u, ev)
    /\ UNCHANGED <<running, access>>

SpecInput == Init /\ [][NextInput]_vars

\* ------------------------------------------------------ calls in flight
\* a handler is a coroutine: it begins, suspends at its awaits and returns.
\* Application.builder() is used without concurrent_updates, and every
\* handler is registered blocking: the application awaits the handler of one
\* update before it takes the next update
concurrent_updates_enabled == TRUE

concurrent_updates == FALSE

\* the number of calls the model lets be in flight at once
MaxInflight == 2

InflightEvents(state) ==
    {Callback(t) : t \in Nav \cup (IF state \in CAPTAIN..PIER
                                     THEN OwnTokens(state) ELSE {})}
        \cup {Command(c) : c \in {"report", "cancel"}}

\* the application hands an update to its handler: the call remembers the
\* step and the session it was begun for
Begin(u, ev) ==
    /\ concurrent_updates \/ running = <<>>
    /\ Len(running) < MaxInflight
    /\ running' = Append(running, [u |-> u, ev |-> ev, state |-> conv[u],
                                    session |-> user_data[u]])
    /\ UNCHANGED <<conv, user_data, prompt, reports, out, access>>

\* the call returns: its writes and its returned state take effect
Finish(i) ==
    /\ Step(running[i].u, running[i].ev)
    /\ running' = [j \in 1..(Len(running) - 1) |->
                       IF j < i THEN running[j] ELSE running[j + 1]]
    /\ UNCHANGED access

NextInflight ==
    \/ \E u \in SoloUsers : \E ev \in InflightEvents(conv[u]) : Begin(u, ev)
    \/ \E i \in DOMAIN running : Finish(i)

SpecInflight == Init /\ [][NextInflight]_vars

\* ------------------------------------------------------ fuel quantities
\* a report filled in with two different totals and two different used
\* quantities, with back, edit, submit and the two commands
FuelTexts(state) ==
    CASE state \in {MAX_SPEED, GASOLINE_REFUEL} -> {"30"}
      [] state \in {TOTAL_GASOLINE, GASOLINE_USED} -> {"30", "1,5"}
      [] OTHER -> {}

\* the buttons of the step; at the program step the one program button
FuelTokens(state) ==
    IF state = PROGRAM THEN {<<"program", programs[2]>>} \cup Nav
    ELSE OwnTokens(state) \cup {<<"back">>}

FuelEvents(state) ==
    {Callback(t) : t \in FuelTokens(state)}
        \cup {Text(t) : t \in FuelTexts(state)}
        \cup {Command(c) : c \in {"report", "start"}}

NextFuel ==
    /\ \E u \in SoloUsers : \E ev \in FuelEvents(conv[u]) : Step(u, ev)
    /\ UNCHANGED <<running, access>>

SpecFuel == Init /\ [][NextFuel]_vars

\* ------------------------------------------------- Bot API calls that raise
\* reply_text and edit_message_text raise telegram.error.TelegramError when
\* the request fails. No handler catches it (max_speed_input catches
\* ValueError only), so the handler raises after its writes to
\* context.user_data: the writes stay, and the conversation keeps its state
\* nothing in the code limits the steps that raising handlers push onto
\* the history: the model lets a handler raise while the history it leaves
\* repeats fewer than MaxRepeats entries
MaxRepeats == 1

repeats(h) == Len(h) - Cardinality(Range(h))

SendRaised(u, ud) ==
    /\ ud.state_history = <<>> \/ repeats(ud.state_history[1]) < MaxRepeats
    /\ user_data' = [user_data EXCEPT ![u] = ud]
    /\ out' = "raised"
    /\ UNCHANGED <<conv, prompt>>

\* captain_selected when edit_message_text raises
captain_selected_send_raises(u, ev) ==
    /\ Route(conv[u], ev) = "captain_selected"
    /\ ev.data \notin {<<"back">>, <<"cancel">>}
    /\ Len(ev.data) >= 2
    /\ SendRaised(u, save_state(SetField(user_data[u], "captain_name",
                                         ev.data[2]), BOAT))
    /\ UNCHANGED reports

\* max_speed_input when reply_text raises after an accepted number
max_speed_input_send_raises(u, ev) ==
    /\ Route(conv[u], ev) = "max_speed_input"
    /\ ev.type = "text"
    /\ int(ev.data[1]) # <<>>
    /\ SendRaised(u, save_state(SetField(user_data[u], "max_speed",
                                         int(ev.data[1])[1]),
                                GASOLINE_REFUEL))
    /\ UNCHANGED reports

\* confirm:yes when edit_message_text raises. The call that reports the
\* success is inside the try block, after create_report: when it raises,
\* the except branch reports a save error, although the report is stored,
\* and user_data.clear() is skipped. The call of the except branch is
\* outside any try block: when it raises too (again), the handler raises
confirm_submission_send_raises(u, ev) ==
    /\ Route(conv[u], ev) = "confirm_submission"
    /\ Len(ev.data) >= 2
    /\ ev.data[2] = "yes"
    /\ \E fault \in BOOLEAN, again \in BOOLEAN :
          LET ud == get_report_data(user_data[u])
              created == create_report(ud.report[1], fault)
              left == [ud EXCEPT !.report[1] = after_create_report(@)]
          IN  IF created = <<>>
              THEN /\ again
                   /\ SendRaised(u, left)
                   /\ UNCHANGED reports
              ELSE /\ Len(reports) < MaxReports
                   /\ reports' = Append(reports, created[1])
                   /\ IF again
                      THEN SendRaised(u, left)
                      ELSE Handled(u, ev,
                               Result(END, left, Prompt("Save error", {})))

\* one report filled in from CAPTAIN to CONFIRM, with back, cancel, edit,
\* discard and submit, a submit button pressed once more after the end, and
\* the /report command
FaultTexts(state) ==
    CASE state \in {MAX_SPEED, GASOLINE_REFUEL, TOTAL_GASOLINE} -> {"30"}
      [] state = GASOLINE_USED -> {"1,5"}
      [] OTHER -> {}

FaultEvents(state) ==
    {Callback(t) : t \in FuelTokens(state) \cup
                            (IF state = END THEN {Submit} ELSE {})}
        \cup {Text(t) : t \in FaultTexts(state)}
        \cup {Command("report")}

SendRaises(u, ev) ==
    \/ captain_selected_send_raises(u, ev)
    \/ max_speed_input_send_raises(u, ev)
    \/ confirm_submission_send_raises(u, ev)

NextFault ==
    /\ \E u \in SoloUsers : \E ev \in FaultEvents(conv[u]) :
          Step(u, ev) \/ SendRaises(u, ev)
    /\ UNCHANGED <<running, access>>

SpecFault == Init /\ [][NextFault]_vars

\* ------------------------------------------------- updates of every shape
\* one report filled in from CAPTAIN to CONFIRM, where every step also
\* receives a text that no step accepts, the new-report text, a photo and
\* the /report command
MixedEvents(state) ==
    {Callback(t) : t \in FuelTokens(state) \ {Submit}}
        \cup {Text(t) : t \in FaultTexts(state) \cup {"abc", NewReportText}}
        \cup {Photo(f) : f \in Files}
        \cup {Command("report")}

NextMixed ==
    /\ \E u \in SoloUsers : \E ev \in MixedEvents(conv[u]) : Step(u, ev)
    /\ UNCHANGED <<running, access>>

SpecMixed == Init /\ [][NextMixed]_vars

\* ------------------------------------------------------- the allow-list
\* the largest user id of the model; 0 is the id of the bypass
MaxId == 4
Ids == 0..MaxId

\* the lists of ids that allowed_users.yaml may hold
UserFiles == SUBSET Ids

\* UserService.is_allowed(telegram_id): the first call loads the file, the
\* later calls answer from the loaded list (reload is never called)
is_allowed_call(file, telegram_id) ==
    /\ LET users == IF access.loaded THEN access.users ELSE file
       IN  access' = [loaded |-> TRUE, users |-> users,
                      telegram_id |-> <<telegram_id>>,
                      result |-> <<is_allowed_in(users, telegram_id)>>]
    /\ UNCHANGED <<conv, user_data, prompt, reports, out, running>>

NextAccess ==
    \E file \in UserFiles : \E telegram_id \in Ids :
        is_allowed_call(file, telegram_id)

SpecAccess == Init /\ [][NextAccess]_vars

TypeOK ==
    /\ \A u \in Users : conv[u] \in ReportStates \cup {END}
    /\ Len(reports) <= MaxReports

\* ------------------------------------------------------------ properties
history_of(u) ==
    IF user_data[u].state_history = <<>> THEN <<>>
    ELSE user_data[u].state_history[1]

has_report(u) == user_data[u].report # <<>>
report_of(u) == user_data[u].report[1]

Last(s) == s[Len(s)]
Front(s) == SubSeq(s, 1, Len(s) - 1)

AllTokens ==
    UNION {OwnTokens(state) : state \in ReportStates} \cup Nav
        \cup {<<"main_menu">>}

\* the two histories of an uninterrupted pass from CAPTAIN to CONFIRM
LinearWithPrivate == [i \in 1..16 |-> i]
LinearWithoutPrivate == [i \in 1..15 |-> IF i < PRIVATE_PROGRAM THEN i ELSE i + 1]

\* C1: a pass through the steps in their linear order (captain, boat,
\* program, [private route], pier, dates, speed, refuel, total, used,
\* mileage, photo, photo), whose history therefore lists every step up to
\* CONFIRM, is at CONFIRM with captain, boat, program, pier and the three
\* dates populated and gasoline_left = total_gasoline - gasoline_used.
C1_LinearPassReachesConfirm ==
    \A u \in Users :
        history_of(u) \in {LinearWithPrivate, LinearWithoutPrivate} =>
            /\ conv[u] = CONFIRM
            /\ has_report(u)
            /\ report_of(u).captain_name # ""
            /\ report_of(u).boat_name # ""
            /\ report_of(u).program_name # ""
            /\ report_of(u).departure_pier # ""
            /\ report_of(u).departure_date # <<>>
            /\ report_of(u).return_date # <<>>
            /\ report_of(u).refill_date # <<>>
            /\ report_of(u).gasoline_left =
                   report_of(u).total_gasoline - report_of(u).gasoline_used

C1_Witness ==
    /\ conv[1] = CONFIRM
    /\ history_of(1) = LinearWithPrivate
    /\ report_of(1).telegram_user_id = 1
    /\ report_of(1).total_gasoline = 300
    /\ report_of(1).gasoline_used = 15
    /\ report_of(1).gasoline_left = 285

\* C2: at PROGRAM a selection of the sentinel N/A moves to PRIVATE_PROGRAM
\* and pushes it on the history, a selection of any other value moves to
\* PIER and pushes it; from every other step a forward move goes to the one
\* step that follows it, whatever the value.
C2_OnlyProgramBranches ==
    [][\A u \in Users :
          /\ \A tok \in AllTokens \ Nav :
                (Len(tok) = 2 /\ program_selected(u, Callback(tok))) =>
                    LET target == IF tok[2] = "N/A" THEN PRIVATE_PROGRAM
                                  ELSE PIER
                    IN  /\ conv'[u] = target
                        /\ history_of(u)' = Append(history_of(u), target)
          /\ (/\ conv[u] \in ReportStates \ {PROGRAM}
              /\ conv'[u] \in ReportStates
              /\ conv'[u] > conv[u]) => conv'[u] = conv[u] + 1
      ]_vars

C2_Witness ==
    /\ conv[1] = PRIVATE_PROGRAM
    /\ has_report(1)
    /\ report_of(1).program_name = "N/A"
    /\ Last(history_of(1)) = PRIVATE_PROGRAM

\* C3: whenever the conversation is at a step, the history is non-empty and
\* its last element is that step.
C3_HistoryTopIsCurrentStep ==
    \A u \in Users :
        conv[u] \in ReportStates =>
            /\ history_of(u) # <<>>
            /\ Last(history_of(u)) = conv[u]

Back == Callback(<<"back">>)

\* the step visited before the current one in a forward pass
previous_step(u) ==
    IF conv[u] = PIER
    THEN IF has_report(u) /\ report_of(u).program_name = "N/A"
         THEN PRIVATE_PROGRAM ELSE PROGRAM
    ELSE conv[u] - 1

Answer(state, ev) ==
    IF ev.type = "callback" /\ (ev.data \in Nav \/ Len(ev.data) # 2) THEN <<>>
    ELSE IF state \in {CAPTAIN, BOAT, PROGRAM, PIER} /\ ev.type = "callback"
    THEN <<ev.data[2]>>
    ELSE IF state = PRIVATE_PROGRAM /\ ev.type = "callback"
    THEN << <<ev.data[2]>> >>
    ELSE IF state \in DEPARTURE_DATE..REFILL_DATE /\ ev.type = "callback"
    THEN IF fromisoformat(ev.data[2]) = <<>> THEN <<>>
         ELSE <<fromisoformat(ev.data[2])>>
    ELSE IF state \in DEPARTURE_DATE..REFILL_DATE /\ ev.type = "text"
    THEN IF parse_date(ev.data[1]) = <<>> THEN <<>>
         ELSE <<parse_date(ev.data[1])>>
    ELSE IF state = MAX_SPEED /\ ev.type = "text" THEN int(ev.data[1])
    ELSE IF state \in GASOLINE_REFUEL..GASOLINE_USED /\ ev.type = "text"
    THEN float(replace_comma(ev.data[1]))
    ELSE <<>>

field_of(state) ==
    CASE state = CAPTAIN -> "captain_name"
      [] state = BOAT -> "boat_name"
      [] state = PROGRAM -> "program_name"
      [] state = PRIVATE_PROGRAM -> "private_program"
      [] state = PIER -> "departure_pier"
      [] state = DEPARTURE_DATE -> "departure_date"
      [] state = RETURN_DATE -> "return_date"
      [] state = REFILL_DATE -> "refill_date"
      [] state = MAX_SPEED -> "max_speed"
      [] state = GASOLINE_REFUEL -> "gasoline_refuel"
      [] state = TOTAL_GASOLINE -> "total_gasoline"
      [] state = GASOLINE_USED -> "gasoline_used"

AllTexts == UNION {BaseTexts(state) : state \in ReportStates}

AllEvents ==
    {Callback(t) : t \in AllTokens} \cup {Text(t) : t \in AllTexts}
        \cup {Photo(f) : f \in Files} \cup {Command(c) : c \in Commands}

\* C5: a back that does not end the conversation leaves every field of the
\* record as it was (only the history and the current step change), and an
\* answer given to a step afterwards overwrites that step's field.
C5_BackKeepsRecord ==
    [][\A u \in Users :
          /\ (Step(u, Back) /\ conv'[u] # END) =>
                /\ user_data'[u].report = user_data[u].report
                /\ reports' = reports
          /\ \A ev \in BaseEvents(conv[u]) :
                (/\ conv[u] \in CAPTAIN..GASOLINE_USED
                 /\ Route(conv[u], ev) # "start_report"
                 /\ Answer(conv[u], ev) # <<>>
                 /\ Step(u, ev)) =>
                    report_of(u)'[field_of(conv[u])] = Answer(conv[u], ev)[1]
      ]_vars

\* back from PROGRAM: the boat is still stored, at BOAT, before any program
C5_Witness ==
    /\ conv[1] = BOAT
    /\ history_of(1) = <<CAPTAIN, BOAT>>
    /\ has_report(1)
    /\ report_of(1).telegram_user_id = 1
    /\ report_of(1).boat_name = "Orca"
    /\ report_of(1).program_name = ""

\* C6: back at CAPTAIN, and back at any step while the history holds at most
\* one entry, ends the conversation and clears record and history; the
\* history is never an empty list.
C6_BackAtFloorIsCancel ==
    /\ [](\A u \in Users : user_data[u].state_history # << <<>> >>)
    /\ [][\A u \in Users :
            (/\ conv[u] \in ReportStates
             /\ (conv[u] = CAPTAIN \/ Len(history_of(u)) <= 1)
             /\ Step(u, Back)) =>
                /\ conv'[u] = END
                /\ user_data'[u] = EmptyUserData
        ]_vars

CancelEvents == {Callback(<<"cancel">>), Command("cancel")}

\* C7: a cancel issued at any of the 16 steps ends the conversation and
\* leaves the session without record and without history.
C7_CancelFromEveryStep ==
    [][\A u \in Users : \A ev \in CancelEvents :
          (conv[u] \in ReportStates /\ Step(u, ev)) =>
              /\ conv'[u] = END
              /\ user_data'[u] = EmptyUserData
      ]_vars

\* C8: at every step, CONFIRM included, the tokens back and cancel are taken
\* as control values: the handler does not fail on them and stores no field.
C8_ControlTokensRecognized ==
    [][\A u \in Users : \A tok \in Nav :
          (conv[u] \in ReportStates /\ Step(u, Callback(tok))) =>
              /\ out' = "handled"
              /\ user_data'[u].report \in {user_data[u].report, <<>>}
      ]_vars

\* C9: from every state a cancel, button or command, leaves the conversation
\* ended and the session empty without failing, so that a second cancel in a
\* row ends where the first one did.
C9_CancelIdempotent ==
    [][\A u \in Users : \A ev \in CancelEvents :
          Step(u, ev) =>
              /\ conv'[u] = END
              /\ user_data'[u] = EmptyUserData
              /\ out' # "raised"
      ]_vars

\* C10: a text that the date, speed, fuel or mileage step at hand cannot
\* parse leaves step, history and record as they were and shows an error
\* prompt that carries back and cancel.
rejected(state, text) ==
    CASE state \in DEPARTURE_DATE..REFILL_DATE -> parse_date(text) = <<>>
      [] state = MAX_SPEED -> int(text) = <<>>
      [] state \in GASOLINE_REFUEL..MILEAGE ->
            float(replace_comma(text)) = <<>>
      [] OTHER -> FALSE

ErrorMessages ==
    {"Invalid date format. Use DD.MM.YYYY", "Enter a whole number",
     "Enter a number", "Enter a number or press 'Skip'"}

C10_RejectedTextKeepsStep ==
    [][\A u \in Users : \A text \in AllTexts :
          (/\ rejected(conv[u], text)
           /\ Route(conv[u], Text(text)) # "start_report"
           /\ Step(u, Text(text))) =>
              /\ conv'[u] = conv[u]
              /\ user_data'[u] = user_data[u]
              /\ reports' = reports
              /\ prompt'[u].msg \in ErrorMessages
              /\ Nav \subseteq prompt'[u].kb
      ]_vars

C10_Witness ==
    /\ conv[1] = MAX_SPEED
    /\ prompt[1].msg = "Enter a whole number"
    /\ Last(history_of(1)) = MAX_SPEED
    /\ report_of(1).max_speed = 0

\* C11: no update makes a step handler raise: the handling of every update at
\* an active step ends with a returned state.
C11_NoHandlerRaises == out # "raised"

\* the option list a closed-choice step offers
options(state) ==
    CASE state = CAPTAIN -> Range(captains)
      [] state = BOAT -> Range(boats)
      [] state = PROGRAM -> Range(programs)
      [] state = PRIVATE_PROGRAM -> Range(programs) \ {"N/A"}
      [] state = PIER -> Range(piers)

closed_choice_ok(r) ==
    /\ r.captain_name \in {""} \cup options(CAPTAIN)
    /\ r.boat_name \in {""} \cup options(BOAT)
    /\ r.program_name \in {""} \cup options(PROGRAM)
    /\ r.private_program \in {<<>>} \cup {<<p>> : p \in options(PRIVATE_PROGRAM)}
    /\ r.departure_pier \in {""} \cup options(PIER)

\* C12: at a closed-choice step a value outside the step's option list
\* leaves step, history and record unchanged, and every populated
\* closed-choice field holds a member of its option list.
C12_ClosedChoiceMembership ==
    /\ [](\A u \in Users : has_report(u) => closed_choice_ok(report_of(u)))
    /\ [][\A u \in Users : \A tok \in AllTokens \cup StaleButtons :
            (/\ conv[u] \in CAPTAIN..PIER
             /\ Len(tok) = 2
             /\ tok[2] \notin options(conv[u])
             /\ Step(u, Callback(tok))) =>
                /\ conv'[u] = conv[u]
                /\ user_data'[u] = user_data[u]
        ]_vars

\* C13: a button of another step than the current one changes neither the
\* record, nor the history, nor the current step.
C13_StaleButtonIgnored ==
    [][\A u \in Users : \A tok \in StaleButtons :
          (/\ conv[u] \in ReportStates
           /\ tok \in StaleTokens(conv[u])
           /\ Step(u, Callback(tok))) =>
              /\ conv'[u] = conv[u]
              /\ user_data'[u] = user_data[u]
      ]_vars

\* C14: after confirm:yes at CONFIRM the conversation has ended and the
\* session holds neither record nor history, whether the report was stored
\* or not.
C14_SubmitClearsSession ==
    [][\A u \in Users :
          (conv[u] = CONFIRM /\ Step(u, Callback(Submit))) =>
              /\ conv'[u] = END
              /\ user_data'[u] = EmptyUserData
      ]_vars

\* the fields a report must carry to be stored
required_filled(r) ==
    /\ r.captain_name # ""
    /\ r.boat_name # ""
    /\ r.program_name # ""
    /\ r.departure_pier # ""
    /\ r.departure_date # <<>>
    /\ r.return_date # <<>>
    /\ r.refill_date # <<>>
    /\ r.max_speed > 0

\* C15: a submit with a required field empty or zero (or with no record at
\* all) fails and stores nothing; every stored report has captain, boat,
\* program, pier and the three dates set and max_speed > 0.
C15_OnlyCompleteReportsStored ==
    /\ [](\A i \in DOMAIN reports : required_filled(reports[i]))
    /\ [][\A u \in Users :
            (/\ conv[u] = CONFIRM
             /\ ~(has_report(u) /\ required_filled(report_of(u)))
             /\ Step(u, Callback(Submit))) =>
                /\ reports' = reports
                /\ prompt'[u].msg = "Save error"
        ]_vars

\* a submit of a record whose speed is zero has failed
C15_Witness ==
    /\ conv[1] = END
    /\ prompt[1].msg = "Save error"
    /\ has_report(1)
    /\ report_of(1).captain_name = "Alice"
    /\ report_of(1).refill_date # <<>>
    /\ report_of(1).max_speed = 0
    /\ reports = <<>>

Fields == DOMAIN ReportData(0)

\* the fields the handler of a step assigns
written_by(state) ==
    CASE state \in CAPTAIN..TOTAL_GASOLINE -> {field_of(state)}
      [] state = GASOLINE_USED -> {"gasoline_used", "gasoline_left"}
      [] state = MILEAGE -> {"mileage_ride"}
      [] state = MILEAGE_PHOTO -> {"mileage_photo_id"}
      [] state = BILL_PHOTO -> {"bill_photo_id"}
      [] OTHER -> {}

Edit == Callback(<<"confirm", "edit">>)

\* C16: edit at CONFIRM sets the history to [CAPTAIN], moves to CAPTAIN and
\* keeps the record; an answer to a step between CAPTAIN and BILL_PHOTO
\* changes only the fields of that step, so that fields not answered again
\* keep their values.
C16_EditKeepsRecord ==
    [][\A u \in Users :
          /\ (conv[u] = CONFIRM /\ Step(u, Edit)) =>
                /\ history_of(u)' = <<CAPTAIN>>
                /\ conv'[u] = CAPTAIN
                /\ user_data'[u].report = user_data[u].report
                /\ reports' = reports
          /\ \A ev \in SubmitEvents(conv[u]) :
                (/\ conv[u] \in CAPTAIN..BILL_PHOTO
                 /\ has_report(u)
                 /\ has_report(u)'
                 /\ Route(conv[u], ev) # "start_report"
                 /\ Step(u, ev)) =>
                    \A f \in Fields \ written_by(conv[u]) :
                        report_of(u)'[f] = report_of(u)[f]
      ]_vars

\* edit has returned a filled record to CAPTAIN
C16_Witness ==
    /\ conv[1] = CAPTAIN
    /\ prompt[1].msg = "Edit report: select captain:"
    /\ history_of(1) = <<CAPTAIN>>
    /\ report_of(1).captain_name = "Alice"
    /\ report_of(1).departure_pier = "Dock1"
    /\ report_of(1).max_speed = 30

private_only_with_sentinel(r) ==
    r.private_program # <<>> => r.program_name = "N/A"

\* C17: in every session and in every stored report, a private route is
\* present only when the program is the sentinel N/A.
C17_PrivateOnlyWithSentinel ==
    /\ \A u \in Users : has_report(u) => private_only_with_sentinel(report_of(u))
    /\ \A i \in DOMAIN reports : private_only_with_sentinel(reports[i])

C19_StartDestroysSession ==
    [][\A u \in Users :
          (conv[u] \in ReportStates /\ Step(u, Command("start"))) =>
              /\ conv'[u] = END
              /\ user_data'[u] = EmptyUserData
      ]_vars

\* C20: a stored report carries the id of the user whose confirm:yes stored
\* it.
C20_StoredReportCarriesSubmitter ==
    [][\A u \in Users :
          (Step(u, Callback(Submit)) /\ Len(reports') > Len(reports)) =>
              Last(reports').telegram_user_id = u
      ]_vars

EntryEvents == {Text(NewReportText), Command("report")}

\* C21: a report-start event of a user whom is_allowed refuses leaves the
\* conversation ended and the session without record and history; such a
\* user is never at a step.
C21_DeniedUserGetsNoSession ==
    /\ [](\A u \in Users :
            ~is_allowed(u) => conv[u] = END /\ user_data[u] = EmptyUserData)
    /\ [][\A u \in Users : \A ev \in EntryEvents :
            (~is_allowed(u) /\ Step(u, ev)) =>
                /\ conv'[u] = END
                /\ user_data'[u] = EmptyUserData
                /\ prompt'[u].msg = "You don't have access"
        ]_vars

\* user 3 has asked for a report and was refused
C21_Witness ==
    /\ ~is_allowed(3)
    /\ conv[3] = END
    /\ user_data[3] = EmptyUserData
    /\ prompt[3].msg = "You don't have access"
    /\ out = "handled"

\* C22: the skip button of the mileage step and of either photo step sets
\* the step's field to absent, whatever it held, and advances to the next
\* step; a photo sent at a photo step stores its file id and advances.
C22_SkipAndPhoto ==
    [][\A u \in Users :
          /\ (conv[u] = MILEAGE /\ Step(u, Callback(<<"mileage", "skip">>))) =>
                /\ report_of(u)'.mileage_ride = <<>>
                /\ conv'[u] = MILEAGE_PHOTO
                /\ history_of(u)' = Append(history_of(u), MILEAGE_PHOTO)
          /\ (/\ conv[u] = MILEAGE_PHOTO
              /\ Step(u, Callback(<<"mileage_photo", "skip">>))) =>
                /\ report_of(u)'.mileage_photo_id = <<>>
                /\ conv'[u] = BILL_PHOTO
                /\ history_of(u)' = Append(history_of(u), BILL_PHOTO)
          /\ (/\ conv[u] = BILL_PHOTO
              /\ Step(u, Callback(<<"bill_photo", "skip">>))) =>
                /\ report_of(u)'.bill_photo_id = <<>>
                /\ conv'[u] = CONFIRM
                /\ history_of(u)' = Append(history_of(u), CONFIRM)
          /\ \A f \in Files :
                /\ (conv[u] = MILEAGE_PHOTO /\ Step(u, Photo(f))) =>
                      /\ report_of(u)'.mileage_photo_id = <<f>>
                      /\ conv'[u] = BILL_PHOTO
                      /\ history_of(u)' = Append(history_of(u), BILL_PHOTO)
                /\ (conv[u] = BILL_PHOTO /\ Step(u, Photo(f))) =>
                      /\ report_of(u)'.bill_photo_id = <<f>>
                      /\ conv'[u] = CONFIRM
                      /\ history_of(u)' = Append(history_of(u), CONFIRM)
      ]_vars

\* the mileage was skipped, the odometer photo sent and the receipt photo
\* skipped
C22_Witness ==
    /\ conv[1] = CONFIRM
    /\ history_of(1) = LinearWithoutPrivate
    /\ report_of(1).mileage_ride = <<>>
    /\ report_of(1).mileage_photo_id = <<"file1">>
    /\ report_of(1).bill_photo_id = <<>>

\* C23: in every state the refueled, total and used quantities and the
\* maximum speed of the record are not negative.
C23_QuantitiesNotNegative ==
    \A u \in Users :
        has_report(u) =>
            /\ report_of(u).max_speed >= 0
            /\ report_of(u).gasoline_refuel >= 0
            /\ report_of(u).total_gasoline >= 0
            /\ report_of(u).gasoline_used >= 0

\* the prompt with which a step is entered
StepPrompt(state) ==
    CASE state = CAPTAIN -> Prompt("Select captain:", get_captain_keyboard)
      [] state = BOAT -> Prompt("Select boat:", get_boat_keyboard)
      [] state = PROGRAM -> Prompt("Select program:", get_program_keyboard)
      [] state = PRIVATE_PROGRAM ->
            Prompt("Select private tour route:", get_private_program_keyboard)
      [] state = PIER -> Prompt("Select pier:", get_pier_keyboard)
      [] state = DEPARTURE_DATE ->
            Prompt("Departure date:", get_date_keyboard("departure"))
      [] state = RETURN_DATE ->
            Prompt("Return date:", get_date_keyboard("return"))
      [] state = REFILL_DATE ->
            Prompt("Refill date:", get_date_keyboard("refill"))
      [] state = MAX_SPEED -> Prompt("Max speed:", get_navigation_keyboard)
      [] state = GASOLINE_REFUEL ->
            Prompt("Fuel refilled:", get_navigation_keyboard)
      [] state = TOTAL_GASOLINE ->
            Prompt("Total fuel on boat:", get_navigation_keyboard)
      [] state = GASOLINE_USED -> Prompt("Fuel used:", get_navigation_keyboard)
      [] state = MILEAGE ->
            Prompt("Mileage (optional):", get_skip_keyboard("mileage"))
      [] state = MILEAGE_PHOTO ->
            Prompt("Odometer photo (optional):",
                   get_photo_keyboard("mileage_photo"))

\* C24: when back moves to a previous step, CAPTAIN to MILEAGE_PHOTO, the
\* prompt shown afterwards is the prompt of that step, text and buttons.
C24_BackShowsPreviousPrompt ==
    [][\A u \in Users :
          (/\ conv[u] \in ReportStates
           /\ Step(u, Back)
           /\ conv'[u] \in CAPTAIN..MILEAGE_PHOTO
           /\ conv'[u] # conv[u]) =>
              prompt'[u] = StepPrompt(conv'[u])
      ]_vars

ClaimedFormats == <<"%d.%m.%Y", "%d/%m/%Y", "%Y-%m-%d">>

\* the date that the first of the claimed formats to parse the text gives
RECURSIVE first_parse(_, _)
first_parse(text, i) ==
    IF i > Len(ClaimedFormats) THEN <<>>
    ELSE IF strptime(text, ClaimedFormats[i]) # <<>>
    THEN strptime(text, ClaimedFormats[i])
    ELSE first_parse(text, i + 1)

CommaPairs == {<<"1,5", "1.5">>, <<"a,b", "a.b">>}

\* the value the record holds for a number step
stored_number(r, state) ==
    CASE state = GASOLINE_REFUEL -> <<r.gasoline_refuel>>
      [] state = TOTAL_GASOLINE -> <<r.total_gasoline>>
      [] state = GASOLINE_USED -> <<r.gasoline_used>>
      [] state = MILEAGE -> r.mileage_ride

\* C28: at the refuel, total, used and mileage steps a text with a comma is
\* accepted exactly when the text with a period in its place is, and both
\* store the number that the text with the period denotes.
C28_CommaAsPeriod ==
    [][\A u \in Users :
          conv[u] \in GASOLINE_REFUEL..MILEAGE =>
            \A pair \in CommaPairs : \A t \in {pair[1], pair[2]} :
                Step(u, Text(t)) =>
                    IF float(pair[2]) = <<>>
                    THEN conv'[u] = conv[u] /\ user_data'[u] = user_data[u]
                    ELSE /\ conv'[u] = conv[u] + 1
                         /\ stored_number(report_of(u)', conv[u]) =
                                float(pair[2])
      ]_vars

\* 1,5 or 1.5 was typed at the refuel step and at the mileage step
C28_Witness ==
    /\ conv[1] = MILEAGE_PHOTO
    /\ report_of(1).gasoline_refuel = 15
    /\ report_of(1).mileage_ride = <<15>>

\* C26: an update of a user changes neither the current step, nor the
\* record and history, nor the prompt of any other user.
C26_UsersIndependent ==
    [][\A a \in Users : \A ev \in UsersEvents(conv[a]) :
          Step(a, ev) =>
              \A b \in Users \ {a} :
                  /\ conv'[b] = conv[b]
                  /\ user_data'[b] = user_data[b]
                  /\ prompt'[b] = prompt[b]
      ]_vars

\* two users are in the middle of their own reports, at different steps
C26_Witness ==
    /\ conv[1] = BOAT
    /\ conv[2] = PROGRAM
    /\ report_of(1).telegram_user_id = 1
    /\ report_of(1).boat_name = ""
    /\ report_of(2).telegram_user_id = 2
    /\ report_of(2).boat_name = "Orca"
    /\ history_of(1) = <<CAPTAIN, BOAT>>
    /\ history_of(2) = <<CAPTAIN, BOAT, PROGRAM>>

remainder_ok(data) ==
    data.gasoline_left = data.total_gasoline - data.gasoline_used

C29_RemainderIsTotalLessUsed ==
    /\ \A u \in Users :
        (conv[u] = CONFIRM /\ has_report(u)) => remainder_ok(report_of(u))
    /\ \A i \in DOMAIN reports : remainder_ok(reports[i])

\* a report stored with the total 1.5 and the remainder 0, and the next
\* record at CONFIRM with the total 30 and the remainder 28.5
C29_Witness ==
    /\ reports # <<>>
    /\ reports[1].total_gasoline = 15
    /\ reports[1].gasoline_used = 15
    /\ reports[1].gasoline_left = 0
    /\ conv[1] = CONFIRM
    /\ has_report(1)
    /\ report_of(1).total_gasoline = 300
    /\ report_of(1).gasoline_used = 15
    /\ report_of(1).gasoline_left = 285

\* C30: a record that start_report began and that every step from CAPTAIN
\* to CONFIRM has accepted an answer for is one that submit stores, unless
\* the storage itself fails.
C30_AcceptedInputsCanBeSubmitted ==
    \A u \in Users :
        (/\ conv[u] = CONFIRM
         /\ has_report(u)
         /\ report_of(u).telegram_user_id = u
         /\ history_of(u) \in {LinearWithPrivate, LinearWithoutPrivate}) =>
            create_report(report_of(u), FALSE) # <<>>

\* the handling of ev for u, whether the handler returns or its Bot API
\* call raises
Handling(u, ev) == Step(u, ev) \/ SendRaises(u, ev)

\* the except branch of confirm_submission has reported a save error
failed_submit(u) == prompt[u].msg = "Save error"

\* C31: only confirm:yes at CONFIRM adds a report to the stored ones; every
\* other event leaves them as they are; and a confirm:yes that is answered
\* with the save error has stored nothing and has ended the conversation.
C31_OnlySubmitPersists ==
    [][\A u \in Users : \A ev \in FaultEvents(conv[u]) :
          Handling(u, ev) =>
              /\ reports' # reports =>
                    /\ conv[u] = CONFIRM
                    /\ ev = Callback(Submit)
                    /\ Len(reports') = Len(reports) + 1
              /\ (conv[u] = CONFIRM /\ ev = Callback(Submit)
                    /\ failed_submit(u)') =>
                        /\ reports' = reports
                        /\ conv'[u] = END
      ]_vars

\* C32: the event that stores a report ends the conversation of its user,
\* and confirm:yes outside CONFIRM stores nothing: a repeated confirm:yes
\* finds no step that would store the report again.
C32_AtMostOneReportPerSession ==
    [][\A u \in Users : \A ev \in FaultEvents(conv[u]) :
          Handling(u, ev) =>
              /\ Len(reports') > Len(reports) => conv'[u] = END
              /\ (ev = Callback(Submit) /\ conv[u] # CONFIRM) =>
                    reports' = reports
      ]_vars

strictly_increasing(h) == \A i \in 1..(Len(h) - 1) : h[i] < h[i + 1]

\* C34: the history of every session is strictly increasing, so it holds
\* no step twice and at most 16 steps; and the history of a session whose
\* record carries the id of its user (start_report wrote it, and no /start
\* has cleared it since) begins with CAPTAIN.
C34_HistoryStrictlyIncreasing ==
    \A u \in Users :
        /\ strictly_increasing(history_of(u))
        /\ Len(history_of(u)) <= 16
        /\ (has_report(u) /\ report_of(u).telegram_user_id = u
              /\ history_of(u) # <<>>) => history_of(u)[1] = CAPTAIN

\* C35: the session of a conversation at a step is never left with a
\* history whose last entry is another step than the current one.
C35_HistoryNotAheadOfStep ==
    \A u \in Users :
        (conv[u] # END /\ history_of(u) # <<>>) =>
            Last(history_of(u)) = conv[u]

\* a record in which no step has written anything
blank(r) ==
    /\ r.captain_name = "" /\ r.boat_name = "" /\ r.program_name = ""
    /\ r.private_program = <<>> /\ r.departure_pier = ""
    /\ r.departure_date = <<>> /\ r.return_date = <<>>
    /\ r.refill_date = <<>>
    /\ r.max_speed = 0 /\ r.gasoline_refuel = 0 /\ r.total_gasoline = 0
    /\ r.gasoline_used = 0 /\ r.gasoline_left = 0
    /\ r.mileage_ride = <<>> /\ r.mileage_photo_id = <<>>
    /\ r.bill_photo_id = <<>>

\* C33: the /report command or the new-report text of an allowed user at a
\* step of a report moves the conversation to CAPTAIN, sets the history to
\* [CAPTAIN] and replaces the record by a blank one with the id of the user.
C33_TriggerRestartsReport ==
    [][\A u \in Users : \A ev \in EntryEvents :
          (is_allowed(u) /\ conv[u] # END /\ Step(u, ev)) =>
              /\ conv'[u] = CAPTAIN
              /\ history_of(u)' = <<CAPTAIN>>
              /\ has_report(u)'
              /\ report_of(u)'.telegram_user_id = u
              /\ blank(report_of(u)')
              /\ reports' = reports
      ]_vars

\* the first step of a report, with the record and the history as
\* start_report leaves them
C33_Witness ==
    /\ conv[1] = CAPTAIN
    /\ history_of(1) = <<CAPTAIN>>
    /\ has_report(1)
    /\ report_of(1).telegram_user_id = 1
    /\ blank(report_of(1))
    /\ prompt[1].msg = "Select captain:"
    /\ out = "handled"

\* the steps whose handlers take callbacks only
ClosedChoice == CAPTAIN..PIER

\* a text where no MessageHandler(filters.TEXT) is registered, or a photo
\* where the step takes texts
foreign_shape(state, ev) ==
    \/ /\ ev.type = "text"
       /\ state \in ClosedChoice \cup {MILEAGE_PHOTO, BILL_PHOTO, CONFIRM}
    \/ /\ ev.type = "photo"
       /\ state \in DEPARTURE_DATE..MILEAGE

ShapeEvents ==
    {Text(t) : t \in {"abc", NewReportText}} \cup {Photo(f) : f \in Files}

ignored(u) ==
    /\ out' = "unhandled"
    /\ conv'[u] = conv[u]
    /\ user_data'[u] = user_data[u]

\* C36 as stated: an event of a shape that the current step does not take
\* is not handled, and leaves the step and the session as they are.
C36_ForeignShapeIgnored ==
    [][\A u \in Users : \A ev \in ShapeEvents :
          (foreign_shape(conv[u], ev) /\ Step(u, ev)) => ignored(u)
      ]_vars

\* C36, amended: an event of a shape that the current step does not take,
\* other than the new-report text, is not handled, and leaves the step and
\* the session as they are.
C36_ForeignShapeIgnoredUnlessTrigger ==
    [][\A u \in Users : \A ev \in ShapeEvents \ EntryEvents :
          (foreign_shape(conv[u], ev) /\ Step(u, ev)) => ignored(u)
      ]_vars

\* a text has not been handled at the step of the mileage photo
C36_Witness ==
    /\ conv[1] = MILEAGE_PHOTO
    /\ out = "unhandled"
    /\ has_report(1)
    /\ report_of(1).gasoline_used = 15

\* a button that ends the session: cancel, or the discard button of the
\* confirmation
cancel_choice(kb) == <<"cancel">> \in kb \/ <<"confirm", "no">> \in kb

\* C37: while the conversation of a user is at a step, the latest prompt
\* shown to the user carries a button that ends the session.
C37_EveryPromptOffersCancel ==
    \A u \in Users : conv[u] # END => cancel_choice(prompt[u].kb)

\* C38 as stated: an id is let in exactly when the list holds it or the
\* inbound id is 0.
C38_BypassByInboundZero ==
    access.result # <<>> =>
        (access.result[1] <=>
            (access.telegram_id[1] \in access.users
                \/ access.telegram_id[1] = 0))

\* C38, amended: an id is let in exactly when the list holds it or the list
\* holds the id 0; so an id that the list lacks is let in only when the
\* list holds 0, and, when it does not, exactly the listed ids are let in,
\* the inbound id 0 not among them.
C38_BypassByListedZero ==
    access.result # <<>> =>
        /\ access.result[1] <=>
              (access.telegram_id[1] \in access.users \/ 0 \in access.users)
        /\ (access.result[1] /\ access.telegram_id[1] \notin access.users) =>
              0 \in access.users
        /\ 0 \notin access.users =>
              (access.result[1] <=> access.telegram_id[1] \in access.users)

\* the list holds 0 and 2, and the id 3, which it lacks, has been let in
C38_Witness ==
    /\ access.users = {0, 2}
    /\ access.telegram_id = <<3>>
    /\ access.result = <<TRUE>>

====
